---- MODULE Spec2Model ----
(***************************************************************************)
(* The lending ledger of src/src/components/LendingApp.tsx: the            *)
(* LendingState object (users, capital, loans, payments, currentUser) and  *)
(* the command handlers that replace it.                                   *)
(*                                                                         *)
(* Money.  The code computes with JavaScript numbers.  The model keeps     *)
(* every amount on a decimal grid of 1/100 cent (Dollar grid units per     *)
(* currency unit); a product with an interest rate is the nearest grid     *)
(* point, which is the exact product for every amount the bounds produce   *)
(* from whole-cent inputs over two nested interest computations.           *)
(*                                                                         *)
(* Time.  `now` is the reading of the system clock in days since           *)
(* 1 January 1970 (new Date() / Date.now()).  Identifiers are              *)
(* Date.now().toString(): under Spec every command that creates an entity  *)
(* runs at a clock reading later than the ids already in its collection,   *)
(* so only the order of ids matters and DateNowId gives the least such id. *)
(*                                                                         *)
(* The module also holds the interval that runs the overdue sweep, pairs   *)
(* of handler calls made before a render, the registration form of         *)
(* UserRegistration.tsx and the table mirror of hooks/useSpaceTimeDB.tsx,  *)
(* each with a specification of its own.                                   *)
(***************************************************************************)
EXTENDS Integers, Sequences, FiniteSets, TLC

\* ------------------------------------------------------------------ bounds
MaxRecords == 7
MaxTime    == 32

\* -------------------------------------------------------- program constants
MAX_BORROWERS         == 19
MAX_LOAN_AMOUNT       == 1000
WEEKLY_INTEREST_RATE  == 2
MONTHLY_INTEREST_RATE == 6

\* Grid units per currency unit (1/100 cent).
Dollar == 100 * 100

\* Inputs the commands are issued with (currency units on the grid).  A name
\* is the sequence of its characters.
Names          == {<<"A", "l">>}
Roles          == {"lender", "borrower"}
Schedules      == {"weekly", "monthly"}
Methods        == {"cash"}
DepositAmounts == {500 * Dollar}
WithdrawAmounts == {200 * Dollar, 300 * Dollar}
LoanAmounts    == {300 * Dollar, 1200 * Dollar}
PaymentAmounts == {150 * Dollar, 168 * Dollar, 318 * Dollar, 400 * Dollar}
TickDays       == {16}

\* `undefined` for currentUser, approvedAt and dueDate.
NoUser == [id |-> 0, name |-> <<>>, role |-> "none"]
NoDate == 0 - 1

\* timer: the half minutes gone since the sweep's interval was last set.
\* remote, subscription, hook: the tables of the remote database, the state
\* of the subscription to them and the React state of useSpacetimeDB.
VARIABLES users, capital, loans, payments, currentUser, now, timer,
          remote, subscription, hook

\* The LendingState object; with the clock, the timer and the remote
\* connection, all the variables.
state == <<users, capital, loans, payments, currentUser>>
ledger == <<users, capital, loans, payments, currentUser, now, timer>>
mirror == <<remote, subscription, hook>>
aside == <<timer, remote, subscription, hook>>
vars  == <<users, capital, loans, payments, currentUser, now, timer,
           remote, subscription, hook>>

\* ----------------------------------------------------------------- helpers
RECURSIVE SumSeq(_)
SumSeq(s) == IF s = <<>> THEN 0 ELSE Head(s) + SumSeq(Tail(s))

MaxOf(S) == IF S = {} THEN 0 ELSE CHOOSE m \in S : \A x \in S : x <= m

\* Date.now().toString() read later than every id of the collection.
DateNowId(coll) == MaxOf({coll[i].id : i \in 1..Len(coll)}) + 1

\* amount * interestRate, the rate in percent, on the money grid.
Interest(amount, rate) == (amount * rate + 50) \div 100

\* Mutant of RateOf: the weekly rate for every schedule.
RateOf_Flat(schedule) == WEEKLY_INTEREST_RATE

RateOf(schedule) ==
    IF schedule = "weekly" THEN WEEKLY_INTEREST_RATE ELSE MONTHLY_INTEREST_RATE

\* The calendar of 1970: days in each month, and the month a day falls in.
MonthLen == <<31, 28, 31, 30, 31, 30, 31, 31, 30, 31, 30, 31>>

RECURSIVE MonthStart(_)
MonthStart(m) == IF m = 1 THEN 0 ELSE MonthStart(m - 1) + MonthLen[m - 1]

MonthOf(t) == CHOOSE m \in 1..12 : MonthStart(m) <= t /\ t < MonthStart(m) + MonthLen[m]

\* dueDate.setDate(getDate() + 7) and dueDate.setMonth(getMonth() + 1): the
\* same day of the next month, days past its end running into the one after.
AddWeek(t)  == t + 7
AddMonth(t) == t + MonthLen[MonthOf(t)]

\* Mutant of NextDueDate: every loan falls due after a week.
NextDueDate_AlwaysWeek(schedule, t) == AddWeek(t)

NextDueDate(schedule, t) == IF schedule = "weekly" THEN AddWeek(t) ELSE AddMonth(t)

\* --------------------------------------------------------- derived values
IsLender   == currentUser # NoUser /\ currentUser.role = "lender"
IsBorrower == currentUser # NoUser /\ currentUser.role = "borrower"

TotalCapital == SumSeq([i \in 1..Len(capital) |-> capital[i].amount])

\* totalLoaned: the amounts of the loans whose status is approved.
TotalLoaned ==
    SumSeq([i \in 1..Len(loans) |->
              IF loans[i].status = "approved" THEN loans[i].amount ELSE 0])

AvailableCapital == TotalCapital - TotalLoaned

RemainingBalance(loan) == loan.totalDue - loan.principalPaid - loan.interestPaid

\* loans.find(l => l.id === loanId): the first position, 0 when there is none.
FindLoan(loanId) ==
    IF \E i \in 1..Len(loans) : loans[i].id = loanId
    THEN CHOOSE i \in 1..Len(loans) :
             loans[i].id = loanId /\ \A j \in 1..(i - 1) : loans[j].id # loanId
    ELSE 0

\* -------------------------------------------------------------------- Init
\* The size of the ledger, which MaxRecords bounds: its entries, a loan
\* counted twice.
Records == Len(users) + Len(capital) + 2 * Len(loans) + Len(payments)

LoanIds == {loans[i].id : i \in 1..Len(loans)}

\* ---------------------------------------------------- the remote connection
\* useSpacetimeDB keeps React copies of the four tables the connection
\* subscribes to.  A row is its primary key (identity, lender, loanId,
\* paymentId) and a version that stands for the rest of its columns; a table
\* holds one row per key at most, and the capital table the one row of the
\* lender.
Tables == {"user", "capital", "loan", "payment"}
RowKeys == {1, 2}
RowVersions == {0, 1}
NoRow == 0 - 1

KeysOf(table) == IF table = "capital" THEN {1} ELSE RowKeys

Row(key, version) == [id |-> key, version |-> version]

\* `null` for the capital and the currentUser of the hook.
NoCapital == Row(0, NoRow)

\* The identity the connection was given in onConnect.
currentIdentity == 1

\* The rows of a table, as connection.db.<table>.iter() yields them.
RowsOf(table) ==
    {Row(k, remote[table][k]) : k \in {x \in KeysOf(table) : remote[table][x] # NoRow}}

\* ReadonlyMap<string, Row>: identity.toHexString() / id.toString() to row.
EmptyMap == [x \in {} |-> NoCapital]
KeyString(key) == ToString(key)
MapSet(map, row) == (KeyString(row.id) :> row) @@ map
MapDelete(map, row) == [x \in DOMAIN map \ {KeyString(row.id)} |-> map[x]]
MapOf(rows) == [x \in {KeyString(r.id) : r \in rows} |->
                  CHOOSE r \in rows : KeyString(r.id) = x]
MapValues(map) == {map[x] : x \in DOMAIN map}

InitMirror ==
    /\ remote = [t \in Tables |-> [k \in KeysOf(t) |-> NoRow]]
    /\ subscription = "pending"
    /\ hook = [users |-> EmptyMap, currentUser |-> NoCapital, capital |-> NoCapital,
               loans |-> EmptyMap, payments |-> EmptyMap]

\* processInitialCache, run when the subscription is applied.
ProcessInitialCache ==
    [users |-> MapOf(RowsOf("user")),
     currentUser |-> hook.currentUser,
     capital |-> IF RowsOf("capital") = {} THEN hook.capital
                 ELSE CHOOSE r \in RowsOf("capital") : TRUE,
     loans |-> MapOf(RowsOf("loan")),
     payments |-> MapOf(RowsOf("payment"))]

\* The callbacks registerTableCallbacks registers; a table event without a
\* callback leaves the hook as it is.
OnInsert(table, row) ==
    IF table = "user"
    THEN [hook EXCEPT
            !.users = MapSet(hook.users, row),
            !.currentUser = IF KeyString(row.id) = KeyString(currentIdentity)
                            THEN row ELSE hook.currentUser]
    ELSE IF table = "capital" THEN [hook EXCEPT !.capital = row]
    ELSE IF table = "loan" THEN [hook EXCEPT !.loans = MapSet(hook.loans, row)]
    ELSE [hook EXCEPT !.payments = MapSet(hook.payments, row)]

OnUpdate(table, row) ==
    IF table = "user"
    THEN [hook EXCEPT
            !.users = MapSet(hook.users, row),
            !.currentUser = IF KeyString(row.id) = KeyString(currentIdentity)
                            THEN row ELSE hook.currentUser]
    ELSE IF table = "capital" THEN [hook EXCEPT !.capital = row]
    ELSE IF table = "loan" THEN [hook EXCEPT !.loans = MapSet(hook.loans, row)]
    ELSE hook

OnDelete(table, row) ==
    IF table = "loan" THEN [hook EXCEPT !.loans = MapDelete(hook.loans, row)]
    ELSE IF table = "payment"
    THEN [hook EXCEPT !.payments = MapDelete(hook.payments, row)]
    ELSE hook

\* The subscription is applied: the hook loads the tables as they are.
SubscriptionApplied ==
    /\ subscription = "pending"
    /\ subscription' = "applied"
    /\ hook' = ProcessInitialCache
    /\ UNCHANGED <<remote, ledger>>

\* A reducer run on the remote database inserts, updates or deletes a row;
\* once the subscription is applied the connection delivers the event to the
\* callback registered for it.
RowInserted(table, key, version) ==
    /\ remote[table][key] = NoRow
    /\ remote' = [remote EXCEPT ![table][key] = version]
    /\ hook' = IF subscription = "applied" THEN OnInsert(table, Row(key, version))
               ELSE hook
    /\ UNCHANGED <<subscription, ledger>>

RowUpdated(table, key, version) ==
    /\ remote[table][key] # NoRow
    /\ remote[table][key] # version
    /\ remote' = [remote EXCEPT ![table][key] = version]
    /\ hook' = IF subscription = "applied" THEN OnUpdate(table, Row(key, version))
               ELSE hook
    /\ UNCHANGED <<subscription, ledger>>

RowDeleted(table, key) ==
    /\ remote[table][key] # NoRow
    /\ remote' = [remote EXCEPT ![table][key] = NoRow]
    /\ hook' = IF subscription = "applied"
               THEN OnDelete(table, Row(key, remote[table][key]))
               ELSE hook
    /\ UNCHANGED <<subscription, ledger>>

Init ==
    /\ users = <<>>
    /\ capital = <<>>
    /\ loans = <<>>
    /\ payments = <<>>
    /\ currentUser = NoUser
    /\ now = 0
    /\ timer = 0
    /\ InitMirror

\* ---------------------------------------------------------------- outcomes
\* What a handler does with a command in the current state: "ok" when it
\* commits a new state, "ignored" when it returns without one (a bare return,
\* or the updater returning prevState), otherwise the error it throws, under
\* the name the specification gives it:
\*   RoleCapacityExceeded  'Maximum 19 borrowers allowed', 'Only one lender allowed'
\*   InsufficientCapital   'Insufficient available capital',
\*                         'Insufficient capital to approve loan'
\*   LoanLimitExceeded     'Maximum loan amount is $1000'
\*   DuplicateActiveLoan   'You already have an active loan'
\*   ExceedsBalance        'Payment amount exceeds remaining balance'
\* Mutant of RegisterOutcome: the borrower cap left out.
RegisterOutcome_NoBorrowerCap(role) ==
    LET lenderCount == Cardinality({i \in 1..Len(users) : users[i].role = "lender"})
    IN  IF role = "lender" /\ lenderCount >= 1 THEN "RoleCapacityExceeded" ELSE "ok"

RegisterOutcome(role) ==
    LET borrowerCount == Cardinality({i \in 1..Len(users) : users[i].role = "borrower"})
        lenderCount   == Cardinality({i \in 1..Len(users) : users[i].role = "lender"})
    IN  IF role = "borrower" /\ borrowerCount >= MAX_BORROWERS THEN "RoleCapacityExceeded"
        ELSE IF role = "lender" /\ lenderCount >= 1 THEN "RoleCapacityExceeded"
        ELSE "ok"

\* Mutant of DepositOutcome: the role check left out.
DepositOutcome_NoRoleCheck == "ok"

DepositOutcome == IF ~IsLender THEN "ignored" ELSE "ok"

\* Mutants of WithdrawOutcome: the capital check left out; the check made with >=.
WithdrawOutcome_NoCapitalCheck(amount) == IF ~IsLender THEN "ignored" ELSE "ok"

WithdrawOutcome_AtLeast(amount) ==
    IF ~IsLender THEN "ignored"
    ELSE IF amount >= AvailableCapital THEN "InsufficientCapital"
    ELSE "ok"

WithdrawOutcome(amount) ==
    IF ~IsLender THEN "ignored"
    ELSE IF amount > AvailableCapital THEN "InsufficientCapital"
    ELSE "ok"

\* Mutant of HasActiveLoan: only a pending loan counts.
HasActiveLoan_PendingOnly(borrowerId) ==
    \E i \in 1..Len(loans) :
        loans[i].borrowerId = borrowerId /\ loans[i].status = "pending"

HasActiveLoan(borrowerId) ==
    \E i \in 1..Len(loans) :
        /\ loans[i].borrowerId = borrowerId
        /\ (loans[i].status = "pending" \/ loans[i].status = "approved")

\* Mutant of RequestOutcome: the loan cap left out.
RequestOutcome_NoCap(amount) ==
    IF ~IsBorrower THEN "ignored"
    ELSE IF HasActiveLoan(currentUser.id) THEN "DuplicateActiveLoan"
    ELSE "ok"

RequestOutcome(amount) ==
    IF ~IsBorrower THEN "ignored"
    ELSE IF amount > MAX_LOAN_AMOUNT * Dollar THEN "LoanLimitExceeded"
    ELSE IF HasActiveLoan(currentUser.id) THEN "DuplicateActiveLoan"
    ELSE "ok"

ApproveOutcome(loanId, approve) ==
    IF ~IsLender THEN "ignored"
    ELSE IF FindLoan(loanId) = 0 THEN "ignored"
    ELSE IF approve /\ loans[FindLoan(loanId)].amount > AvailableCapital
    THEN "InsufficientCapital"
    ELSE "ok"

\* Mutant of PaymentOutcome: the status check left out.
PaymentOutcome_NoStatusCheck(loanId, amount) ==
    IF ~IsBorrower THEN "ignored"
    ELSE IF FindLoan(loanId) = 0 THEN "ignored"
    ELSE IF amount > RemainingBalance(loans[FindLoan(loanId)]) THEN "ExceedsBalance"
    ELSE "ok"

\* Mutant of PaymentOutcome: the remaining-balance check left out.
PaymentOutcome_NoBalanceCheck(loanId, amount) ==
    IF ~IsBorrower THEN "ignored"
    ELSE IF FindLoan(loanId) = 0 THEN "ignored"
    ELSE IF loans[FindLoan(loanId)].status # "approved" THEN "ignored"
    ELSE "ok"

PaymentOutcome(loanId, amount) ==
    IF ~IsBorrower THEN "ignored"
    ELSE IF FindLoan(loanId) = 0 THEN "ignored"
    ELSE IF loans[FindLoan(loanId)].status # "approved" THEN "ignored"
    ELSE IF amount > RemainingBalance(loans[FindLoan(loanId)]) THEN "ExceedsBalance"
    ELSE "ok"

ResetOutcome == IF ~IsLender THEN "ignored" ELSE "ok"

\* ----------------------------------------------------------------- actions
\* The clock advances.
Tick(d) ==
    /\ now + d <= MaxTime
    /\ now' = now + d
    /\ UNCHANGED state

RegisterUser(name, role) ==
    LET newUser == [id |-> DateNowId(users), name |-> name, role |-> role]
    IN  IF RegisterOutcome(role) # "ok"
        THEN UNCHANGED vars
        ELSE /\ users' = Append(users, newUser)
             /\ currentUser' = newUser
             /\ UNCHANGED <<capital, loans, payments, now>>

\* users.find(u => u.id === userId): the first position, 0 when there is none.
FindUser(userId) ==
    IF \E i \in 1..Len(users) : users[i].id = userId
    THEN CHOOSE i \in 1..Len(users) :
             users[i].id = userId /\ \A j \in 1..(i - 1) : users[j].id # userId
    ELSE 0

SwitchUser(userId) ==
    IF FindUser(userId) = 0
    THEN UNCHANGED vars
    ELSE /\ currentUser' = users[FindUser(userId)]
         /\ UNCHANGED <<users, capital, loans, payments, now>>

\* Mutant of DepositCapital: the new entry replaces the entries held.
DepositCapital_Replace(amount) ==
    IF DepositOutcome # "ok"
    THEN UNCHANGED vars
    ELSE /\ capital' = <<[id |-> DateNowId(capital), lenderId |-> currentUser.id,
                          amount |-> amount]>>
         /\ UNCHANGED <<users, loans, payments, currentUser, now>>

DepositCapital(amount) ==
    IF DepositOutcome # "ok"
    THEN UNCHANGED vars
    ELSE /\ capital' = Append(capital,
                [id |-> DateNowId(capital), lenderId |-> currentUser.id, amount |-> amount])
         /\ UNCHANGED <<users, loans, payments, currentUser, now>>

WithdrawCapital(amount) ==
    IF WithdrawOutcome(amount) # "ok"
    THEN UNCHANGED vars
    ELSE /\ capital' = Append(capital,
                [id |-> DateNowId(capital), lenderId |-> currentUser.id, amount |-> 0 - amount])
         /\ UNCHANGED <<users, loans, payments, currentUser, now>>

RequestLoan(amount, paymentSchedule) ==
    LET interestRate == RateOf(paymentSchedule)
        newLoan == [id |-> DateNowId(loans),
                    borrowerId |-> currentUser.id,
                    borrowerName |-> currentUser.name,
                    amount |-> amount,
                    interestRate |-> interestRate,
                    paymentSchedule |-> paymentSchedule,
                    status |-> "pending",
                    approvedAt |-> NoDate,
                    dueDate |-> NoDate,
                    totalDue |-> amount + Interest(amount, interestRate),
                    principalPaid |-> 0,
                    interestPaid |-> 0,
                    isOverdue |-> FALSE,
                    overdueInterestApplied |-> FALSE]
    IN  IF RequestOutcome(amount) # "ok"
        THEN UNCHANGED vars
        ELSE /\ loans' = Append(loans, newLoan)
             /\ UNCHANGED <<users, capital, payments, currentUser, now>>

\* approveLoan(loanId, approve), the specification's DecideLoan: every loan
\* with the id takes the decision.
DecidedLoan(loan, approve) ==
    IF approve
    THEN [loan EXCEPT !.status = "approved",
                      !.approvedAt = now,
                      !.dueDate = NextDueDate(loan.paymentSchedule, now)]
    ELSE [loan EXCEPT !.status = "rejected"]

ApproveLoan(loanId, approve) ==
    IF ApproveOutcome(loanId, approve) # "ok"
    THEN UNCHANGED vars
    ELSE /\ loans' = [k \in 1..Len(loans) |->
                        IF loans[k].id = loanId
                        THEN DecidedLoan(loans[k], approve)
                        ELSE loans[k]]
         /\ UNCHANGED <<users, capital, payments, currentUser, now>>

\* The split of a payment: interest first, the rest to principal.
RemainingInterest(loan) ==
    Interest(loan.amount, loan.interestRate) - loan.interestPaid
    + (IF loan.overdueInterestApplied THEN Interest(loan.amount, loan.interestRate) ELSE 0)

InterestAmount(loan, amount) ==
    IF amount <= RemainingInterest(loan) THEN amount ELSE RemainingInterest(loan)

\* Mutant of PrincipalAmount: the whole payment goes to principal.
PrincipalAmount_Whole(loan, amount) == amount

PrincipalAmount(loan, amount) == amount - InterestAmount(loan, amount)

\* Mutant of PaidLoan: the cycle is never reset.
PaidLoan_NoRearm(loan, amount) ==
    [loan EXCEPT
       !.principalPaid = loan.principalPaid + PrincipalAmount(loan, amount),
       !.interestPaid = loan.interestPaid + InterestAmount(loan, amount)]

\* updatedLoan: the paid amounts added and, unless that pays the loan off, the
\* due date set one period ahead and both overdue flags cleared.
PaidLoan(loan, amount) ==
    LET paid == [loan EXCEPT
                   !.principalPaid = loan.principalPaid + PrincipalAmount(loan, amount),
                   !.interestPaid = loan.interestPaid + InterestAmount(loan, amount)]
    IN  IF paid.principalPaid + paid.interestPaid < paid.totalDue
        THEN [paid EXCEPT !.dueDate = NextDueDate(loan.paymentSchedule, now),
                          !.isOverdue = FALSE,
                          !.overdueInterestApplied = FALSE]
        ELSE paid

\* Mutant of RecordPayment: the loan is updated and no payment is recorded.
RecordPayment_Unrecorded(loanId, amount, method) ==
    IF PaymentOutcome(loanId, amount) # "ok"
    THEN UNCHANGED vars
    ELSE /\ loans' = [k \in 1..Len(loans) |->
                        IF loans[k].id = loanId
                        THEN PaidLoan(loans[FindLoan(loanId)], amount)
                        ELSE loans[k]]
         /\ UNCHANGED <<users, capital, payments, currentUser, now>>

RecordPayment(loanId, amount, method) ==
    IF PaymentOutcome(loanId, amount) # "ok"
    THEN UNCHANGED vars
    ELSE LET loan == loans[FindLoan(loanId)]
             newPayment == [id |-> DateNowId(payments),
                            loanId |-> loanId,
                            borrowerId |-> currentUser.id,
                            amount |-> amount,
                            method |-> method,
                            principalAmount |-> PrincipalAmount(loan, amount),
                            interestAmount |-> InterestAmount(loan, amount)]
         IN  /\ loans' = [k \in 1..Len(loans) |->
                            IF loans[k].id = loanId THEN PaidLoan(loan, amount) ELSE loans[k]]
             /\ payments' = Append(payments, newPayment)
             /\ UNCHANGED <<users, capital, currentUser, now>>

\* Mutants of SweptLoan: the overdue interest taken on the principal; the due
\* date not looked at; the overdue interest added at every sweep of an overdue
\* loan.
SweptLoan_OnPrincipal(loan) ==
    IF loan.status = "approved" /\ loan.dueDate # NoDate /\ now > loan.dueDate
    THEN IF ~loan.isOverdue /\ ~loan.overdueInterestApplied
         THEN [loan EXCEPT
                 !.isOverdue = TRUE,
                 !.totalDue = loan.totalDue
                              + Interest(loan.amount, RateOf(loan.paymentSchedule)),
                 !.overdueInterestApplied = TRUE]
         ELSE [loan EXCEPT !.isOverdue = TRUE]
    ELSE loan

SweptLoan_NotYetDue(loan) ==
    IF loan.status = "approved" /\ loan.dueDate # NoDate
    THEN IF ~loan.isOverdue /\ ~loan.overdueInterestApplied
         THEN [loan EXCEPT
                 !.isOverdue = TRUE,
                 !.totalDue = loan.totalDue
                              + Interest(RemainingBalance(loan), RateOf(loan.paymentSchedule)),
                 !.overdueInterestApplied = TRUE]
         ELSE [loan EXCEPT !.isOverdue = TRUE]
    ELSE loan

SweptLoan_AlwaysBump(loan) ==
    IF loan.status = "approved" /\ loan.dueDate # NoDate /\ now > loan.dueDate
    THEN [loan EXCEPT
            !.isOverdue = TRUE,
            !.totalDue = loan.totalDue
                         + Interest(RemainingBalance(loan), RateOf(loan.paymentSchedule)),
            !.overdueInterestApplied = TRUE]
    ELSE loan

\* Mutant of SweptLoan: overdueInterestApplied is not set with the bump.
SweptLoan_FlagOnly(loan) ==
    IF loan.status = "approved" /\ loan.dueDate # NoDate /\ now > loan.dueDate
    THEN IF ~loan.isOverdue /\ ~loan.overdueInterestApplied
         THEN [loan EXCEPT
                 !.isOverdue = TRUE,
                 !.totalDue = loan.totalDue
                              + Interest(RemainingBalance(loan), RateOf(loan.paymentSchedule))]
         ELSE [loan EXCEPT !.isOverdue = TRUE]
    ELSE loan

\* updateOverdueLoans, run by the one-minute interval timer.
SweptLoan(loan) ==
    IF loan.status = "approved" /\ loan.dueDate # NoDate /\ now > loan.dueDate
    THEN IF ~loan.isOverdue /\ ~loan.overdueInterestApplied
         THEN [loan EXCEPT
                 !.isOverdue = TRUE,
                 !.totalDue = loan.totalDue
                              + Interest(RemainingBalance(loan), RateOf(loan.paymentSchedule)),
                 !.overdueInterestApplied = TRUE]
         ELSE [loan EXCEPT !.isOverdue = TRUE]
    ELSE loan

OverdueSweep ==
    /\ loans' = [k \in 1..Len(loans) |-> SweptLoan(loans[k])]
    /\ UNCHANGED <<users, capital, payments, currentUser, now>>

SystemReset ==
    IF ResetOutcome # "ok"
    THEN UNCHANGED vars
    ELSE /\ users' = <<currentUser>>
         /\ capital' = <<>>
         /\ loans' = <<>>
         /\ payments' = <<>>
         /\ UNCHANGED <<currentUser, now>>

\* Room(n): the ledger can take n more units of size within the bound.
Room(n) == Records + n <= MaxRecords

Next ==
    \/ \E d \in TickDays : Tick(d) /\ UNCHANGED aside
    \/ \E name \in Names, role \in Roles :
           Room(1) /\ RegisterUser(name, role) /\ UNCHANGED aside
    \/ \E userId \in {users[i].id :
           i \in 1..Len(users)} \cup {0} : SwitchUser(userId) /\ UNCHANGED aside
    \/ \E amount \in DepositAmounts :
           Room(1) /\ DepositCapital(amount) /\ UNCHANGED aside
    \/ \E amount \in WithdrawAmounts :
           Room(1) /\ WithdrawCapital(amount) /\ UNCHANGED aside
    \/ \E amount \in LoanAmounts, schedule \in Schedules :
           Room(2) /\ RequestLoan(amount, schedule) /\ UNCHANGED aside
    \/ \E loanId \in LoanIds \cup {0}, approve \in BOOLEAN :
           ApproveLoan(loanId, approve) /\ UNCHANGED aside
    \/ \E loanId \in LoanIds \cup {0}, amount \in PaymentAmounts, method \in Methods :
           Room(1) /\ RecordPayment(loanId, amount, method) /\ UNCHANGED aside
    \/ OverdueSweep /\ UNCHANGED aside
    \/ SystemReset /\ UNCHANGED aside

Spec == Init /\ [][Next]_vars

\* ------------------------------------------------------- the sweep's timer
\* The effect that sets the interval depends on state.loans: whenever a commit
\* puts a new loans array in the state the interval is cleared and set again,
\* and the full period has to pass before the sweep runs.  requestLoan,
\* approveLoan and recordPayment build a new array whenever they commit, the
\* sweep and systemReset always.  The period is the code's 60000 ms, counted
\* in half minutes.
SweepPeriod == 2

Restart(changed) == timer' = IF changed THEN 0 ELSE timer

Wait ==
    /\ timer + 1 < SweepPeriod
    /\ timer' = timer + 1
    /\ UNCHANGED <<users, capital, loans, payments, currentUser, now>>
    /\ UNCHANGED mirror

TimerSweep ==
    /\ timer + 1 = SweepPeriod
    /\ OverdueSweep
    /\ timer' = 0
    /\ UNCHANGED mirror

NextTimer ==
    \/ \E d \in TickDays : Tick(d) /\ UNCHANGED aside
    \/ \E name \in Names, role \in Roles :
           Room(1) /\ RegisterUser(name, role) /\ UNCHANGED aside
    \/ \E userId \in {users[i].id : i \in 1..Len(users)} \cup {0} :
           SwitchUser(userId) /\ UNCHANGED aside
    \/ \E amount \in DepositAmounts : Room(1) /\ DepositCapital(amount) /\ UNCHANGED aside
    \/ \E amount \in WithdrawAmounts : Room(1) /\ WithdrawCapital(amount) /\ UNCHANGED aside
    \/ \E amount \in LoanAmounts, schedule \in Schedules :
           Room(2) /\ RequestLoan(amount, schedule)
                   /\ Restart(RequestOutcome(amount) = "ok") /\ UNCHANGED mirror
    \/ \E loanId \in LoanIds \cup {0}, approve \in BOOLEAN :
           ApproveLoan(loanId, approve) /\ Restart(ApproveOutcome(loanId, approve) = "ok") /\ UNCHANGED mirror
    \/ \E loanId \in LoanIds \cup {0}, amount \in PaymentAmounts, method \in Methods :
           Room(1) /\ RecordPayment(loanId, amount, method)
                   /\ Restart(PaymentOutcome(loanId, amount) = "ok") /\ UNCHANGED mirror
    \/ SystemReset /\ Restart(ResetOutcome = "ok") /\ UNCHANGED mirror
    \/ Wait
    \/ TimerSweep

\* Time passes, and the interval's callback runs when its period is over.
SpecTimer == Init /\ [][NextTimer]_vars /\ WF_vars(Wait \/ TimerSweep)

\* The remote database and the hook that mirrors it.
NextMirror ==
    \/ SubscriptionApplied
    \/ \E table \in Tables :
          \E key \in KeysOf(table), version \in RowVersions :
             RowInserted(table, key, version)
    \/ \E table \in Tables :
          \E key \in KeysOf(table), version \in RowVersions :
             RowUpdated(table, key, version)
    \/ \E table \in Tables : \E key \in KeysOf(table) : RowDeleted(table, key)

SpecMirror == Init /\ [][NextMirror]_vars

\* ------------------------------------------------ two calls before a render
\* Two handlers called one after the other before React renders again run in
\* the closure of the same rendered state: what a handler checks outside its
\* setState updater it checks against the state both calls started from; the
\* updaters are then applied in the order of the calls, each to the result of
\* the one before.  Date.now() may read the same millisecond twice.
SecondIds(coll) == {DateNowId(coll), DateNowId(coll) + 1}

WithdrawTwice(amount1, amount2) ==
    LET entry1 == [id |-> DateNowId(capital), lenderId |-> currentUser.id,
                   amount |-> 0 - amount1]
        accepted1 == IF WithdrawOutcome(amount1) = "ok" THEN <<entry1>> ELSE <<>>
    IN  \E id2 \in SecondIds(capital) :
            LET entry2 == [id |-> id2, lenderId |-> currentUser.id, amount |-> 0 - amount2]
                accepted2 == IF WithdrawOutcome(amount2) = "ok" THEN <<entry2>> ELSE <<>>
            IN  /\ capital' = capital \o accepted1 \o accepted2
                /\ UNCHANGED <<users, loans, payments, currentUser, now>>

NewLoan(id, amount, paymentSchedule) ==
    [id |-> id,
     borrowerId |-> currentUser.id,
     borrowerName |-> currentUser.name,
     amount |-> amount,
     interestRate |-> RateOf(paymentSchedule),
     paymentSchedule |-> paymentSchedule,
     status |-> "pending",
     approvedAt |-> NoDate,
     dueDate |-> NoDate,
     totalDue |-> amount + Interest(amount, RateOf(paymentSchedule)),
     principalPaid |-> 0,
     interestPaid |-> 0,
     isOverdue |-> FALSE,
     overdueInterestApplied |-> FALSE]

RequestTwice(amount1, schedule1, amount2, schedule2) ==
    LET accepted1 == IF RequestOutcome(amount1) = "ok"
                     THEN <<NewLoan(DateNowId(loans), amount1, schedule1)>> ELSE <<>>
    IN  \E id2 \in SecondIds(loans) :
            LET accepted2 == IF RequestOutcome(amount2) = "ok"
                             THEN <<NewLoan(id2, amount2, schedule2)>> ELSE <<>>
            IN  /\ loans' = loans \o accepted1 \o accepted2
                /\ UNCHANGED <<users, capital, payments, currentUser, now>>

RegisterTwice(name1, role1, name2, role2) ==
    LET user1 == [id |-> DateNowId(users), name |-> name1, role |-> role1]
        accepted1 == IF RegisterOutcome(role1) = "ok" THEN <<user1>> ELSE <<>>
    IN  \E id2 \in SecondIds(users) :
            LET user2 == [id |-> id2, name |-> name2, role |-> role2]
                accepted2 == IF RegisterOutcome(role2) = "ok" THEN <<user2>> ELSE <<>>
                accepted == accepted1 \o accepted2
            IN  /\ users' = users \o accepted
                /\ currentUser' = IF accepted = <<>> THEN currentUser
                                   ELSE accepted[Len(accepted)]
                /\ UNCHANGED <<capital, loans, payments, now>>

\* approveLoan, then withdrawCapital: the decision is validated in its updater,
\* the withdrawal against the state before the decision.  An updater that
\* throws fails the render, and nothing of the batch is committed.
DecideThenWithdraw(loanId, approve, amount) ==
    LET entry == [id |-> DateNowId(capital), lenderId |-> currentUser.id,
                  amount |-> 0 - amount]
        accepted == IF WithdrawOutcome(amount) = "ok" THEN <<entry>> ELSE <<>>
    IN  IF ApproveOutcome(loanId, approve) = "InsufficientCapital"
        THEN UNCHANGED vars
        ELSE /\ loans' = IF ApproveOutcome(loanId, approve) = "ok"
                          THEN [k \in 1..Len(loans) |->
                                  IF loans[k].id = loanId
                                  THEN DecidedLoan(loans[k], approve)
                                  ELSE loans[k]]
                          ELSE loans
             /\ capital' = capital \o accepted
             /\ UNCHANGED <<users, payments, currentUser, now>>

\* The timer's updateOverdueLoans and a recordPayment in one batch.  Both work
\* in their updaters, so the second one starts from the result of the first.
SweptLoans == [k \in 1..Len(loans) |-> SweptLoan(loans[k])]

\* Mutant of SweepThenPay: the payment is computed from the loan as it was
\* before the sweep.
SweepThenPay_Stale(loanId, amount, method) ==
    IF PaymentOutcome(loanId, amount) = "ExceedsBalance"
    THEN UNCHANGED vars
    ELSE IF PaymentOutcome(loanId, amount) = "ignored"
    THEN /\ loans' = SweptLoans
         /\ UNCHANGED <<users, capital, payments, currentUser, now>>
    ELSE LET loan == loans[FindLoan(loanId)]
             newPayment == [id |-> DateNowId(payments),
                            loanId |-> loanId,
                            borrowerId |-> currentUser.id,
                            amount |-> amount,
                            method |-> method,
                            principalAmount |-> PrincipalAmount(loan, amount),
                            interestAmount |-> InterestAmount(loan, amount)]
         IN  /\ loans' = [k \in 1..Len(loans) |->
                            IF loans[k].id = loanId THEN PaidLoan(loan, amount)
                            ELSE SweptLoans[k]]
             /\ payments' = Append(payments, newPayment)
             /\ UNCHANGED <<users, capital, currentUser, now>>

SweepThenPay(loanId, amount, method) ==
    LET i == FindLoan(loanId)
    IN  IF ~IsBorrower \/ i = 0
        THEN /\ loans' = SweptLoans
             /\ UNCHANGED <<users, capital, payments, currentUser, now>>
        ELSE LET loan == SweptLoans[i]
                 newPayment == [id |-> DateNowId(payments),
                                loanId |-> loanId,
                                borrowerId |-> currentUser.id,
                                amount |-> amount,
                                method |-> method,
                                principalAmount |-> PrincipalAmount(loan, amount),
                                interestAmount |-> InterestAmount(loan, amount)]
             IN  IF loan.status # "approved"
                 THEN /\ loans' = SweptLoans
                      /\ UNCHANGED <<users, capital, payments, currentUser, now>>
                 ELSE IF amount > RemainingBalance(loan)
                 THEN UNCHANGED vars
                 ELSE /\ loans' = [k \in 1..Len(loans) |->
                                     IF loans[k].id = loanId THEN PaidLoan(loan, amount)
                                     ELSE SweptLoans[k]]
                      /\ payments' = Append(payments, newPayment)
                      /\ UNCHANGED <<users, capital, currentUser, now>>

PayThenSweep(loanId, amount, method) ==
    IF PaymentOutcome(loanId, amount) = "ExceedsBalance"
    THEN UNCHANGED vars
    ELSE IF PaymentOutcome(loanId, amount) = "ignored"
    THEN /\ loans' = SweptLoans
         /\ UNCHANGED <<users, capital, payments, currentUser, now>>
    ELSE LET loan == loans[FindLoan(loanId)]
             newPayment == [id |-> DateNowId(payments),
                            loanId |-> loanId,
                            borrowerId |-> currentUser.id,
                            amount |-> amount,
                            method |-> method,
                            principalAmount |-> PrincipalAmount(loan, amount),
                            interestAmount |-> InterestAmount(loan, amount)]
         IN  /\ loans' = [k \in 1..Len(loans) |->
                            SweptLoan(IF loans[k].id = loanId THEN PaidLoan(loan, amount)
                                      ELSE loans[k])]
             /\ payments' = Append(payments, newPayment)
             /\ UNCHANGED <<users, capital, currentUser, now>>

\* The commands one at a time and in pairs; a pair needs room for both.
BatchRoom(n) == Records + n < MaxRecords

NextBatch ==
    \/ \E d \in TickDays : Tick(d) /\ UNCHANGED aside
    \/ \E name \in Names, role \in Roles :
           BatchRoom(1) /\ RegisterUser(name, role) /\ UNCHANGED aside
    \/ \E userId \in {users[i].id :
           i \in 1..Len(users)} \cup {0} : SwitchUser(userId) /\ UNCHANGED aside
    \/ \E amount \in DepositAmounts :
           BatchRoom(1) /\ DepositCapital(amount) /\ UNCHANGED aside
    \/ \E amount \in WithdrawAmounts :
           BatchRoom(1) /\ WithdrawCapital(amount) /\ UNCHANGED aside
    \/ \E amount \in LoanAmounts, schedule \in Schedules :
           BatchRoom(2) /\ RequestLoan(amount, schedule) /\ UNCHANGED aside
    \/ \E loanId \in LoanIds \cup {0}, approve \in BOOLEAN :
           ApproveLoan(loanId, approve) /\ UNCHANGED aside
    \/ \E loanId \in LoanIds \cup {0}, amount \in PaymentAmounts, method \in Methods :
           BatchRoom(1) /\ RecordPayment(loanId, amount, method) /\ UNCHANGED aside
    \/ OverdueSweep /\ UNCHANGED aside
    \/ SystemReset /\ UNCHANGED aside
    \/ \E amount1 \in WithdrawAmounts, amount2 \in WithdrawAmounts :
           BatchRoom(2) /\ WithdrawTwice(amount1, amount2) /\ UNCHANGED aside
    \/ \E amount1 \in LoanAmounts, schedule1 \in Schedules,
          amount2 \in LoanAmounts, schedule2 \in Schedules :
           BatchRoom(4) /\ RequestTwice(amount1, schedule1, amount2, schedule2) /\ UNCHANGED aside
    \/ \E name1 \in Names, role1 \in Roles, name2 \in Names, role2 \in Roles :
           BatchRoom(2) /\ RegisterTwice(name1, role1, name2, role2) /\ UNCHANGED aside
    \/ \E loanId \in LoanIds, approve \in BOOLEAN, amount \in WithdrawAmounts :
           BatchRoom(1) /\ DecideThenWithdraw(loanId, approve, amount) /\ UNCHANGED aside
    \/ \E loanId \in LoanIds, amount \in PaymentAmounts, method \in Methods :
           BatchRoom(1) /\ SweepThenPay(loanId, amount, method) /\ UNCHANGED aside
    \/ \E loanId \in LoanIds, amount \in PaymentAmounts, method \in Methods :
           BatchRoom(1) /\ PayThenSweep(loanId, amount, method) /\ UNCHANGED aside

SpecBatch == Init /\ [][NextBatch]_vars

\* ------------------------------------------------------ the registration form
\* UserRegistration.handleSubmit: the name typed into the form is checked and
\* handed, trimmed, to registerUser; every error is caught and displayed.
RawNames == {<<"A", "l">>, <<"a", "L">>, <<" ", "A", "l">>, <<" ">>}

Whitespace == {" "}

\* String.prototype.trim: whitespace removed from both ends.
RECURSIVE TrimStart(_)
TrimStart(s) ==
    IF s # <<>> /\ Head(s) \in Whitespace THEN TrimStart(Tail(s)) ELSE s

RECURSIVE TrimEnd(_)
TrimEnd(s) ==
    IF s # <<>> /\ s[Len(s)] \in Whitespace
    THEN TrimEnd(SubSeq(s, 1, Len(s) - 1))
    ELSE s

Trim(s) == TrimEnd(TrimStart(s))

\* String.prototype.toLowerCase, on the letters the names are written with.
Letters == {<<"A", "a">>, <<"L", "l">>}

LowerOf(c) ==
    IF \E p \in Letters : p[1] = c
    THEN (CHOOSE p \in Letters : p[1] = c)[2]
    ELSE c

ToLowerCase(s) == [i \in 1..Len(s) |-> LowerOf(s[i])]

\*   NameRequired   'Name is required'
\*   DuplicateName  'A user with this name already exists'
SubmitOutcome(name, role) ==
    IF Trim(name) = <<>> THEN "NameRequired"
    ELSE IF \E i \in 1..Len(users) : ToLowerCase(users[i].name) = ToLowerCase(name)
    THEN "DuplicateName"
    ELSE RegisterOutcome(role)

HandleSubmit(name, role) ==
    IF SubmitOutcome(name, role) # "ok"
    THEN UNCHANGED vars
    ELSE RegisterUser(Trim(name), role)

NextRegistration ==
    \/ \E name \in RawNames, role \in Roles :
           Room(1) /\ HandleSubmit(name, role) /\ UNCHANGED aside
    \/ \E userId \in {users[i].id :
           i \in 1..Len(users)} \cup {0} : SwitchUser(userId) /\ UNCHANGED aside
    \/ SystemReset /\ UNCHANGED aside

SpecRegistration == Init /\ [][NextRegistration]_vars

\* ------------------------------------------------- a registry near its cap
\* The state after one borrower short of MAX_BORROWERS have registered, ids
\* 1, 2, ... and names b, bb, ...; the last one registered is the acting user.
Crowd == MAX_BORROWERS - 1

InitCrowd ==
    /\ users = [i \in 1..Crowd |->
                  [id |-> i, name |-> [j \in 1..i |-> "b"], role |-> "borrower"]]
    /\ capital = <<>>
    /\ loans = <<>>
    /\ payments = <<>>
    /\ currentUser = users[Crowd]
    /\ now = 0
    /\ timer = 0
    /\ InitMirror

\* Registration, switching among the users registered last, and reset; the
\* role caps bound the registry.
NextCrowd ==
    \/ \E d \in TickDays : Tick(d) /\ UNCHANGED aside
    \/ \E name \in Names, role \in Roles :
           RegisterUser(name, role) /\ UNCHANGED aside
    \/ \E userId \in {users[i].id : i \in 1..Len(users)} \ 1..(Crowd - 1) :
           SwitchUser(userId) /\ UNCHANGED aside
    \/ SystemReset /\ UNCHANGED aside

SpecCrowd == InitCrowd /\ [][NextCrowd]_vars

\* ================================================================== claims

\* C1: in every reachable state the lender's available capital, the sum of the
\* capital entries minus the principal of the approved loans, is at least zero.
C1_AvailableCapitalNonNegative == AvailableCapital >= 0

\* A withdrawal and an approval have both been accepted and used up the pool.
C1_Witness ==
    /\ \E i \in 1..Len(capital) : capital[i].amount < 0
    /\ \E i \in 1..Len(loans) : loans[i].status = "approved"
    /\ AvailableCapital = 0

\* C2: for every loan, principalPaid + interestPaid <= totalDue, whatever
\* payments and overdue sweeps have been applied to it.
C2_PaidWithinTotalDue ==
    \A i \in 1..Len(loans) :
        loans[i].principalPaid + loans[i].interestPaid <= loans[i].totalDue

\* A loan that a recorded payment has paid up to exactly its total due.
C2_Witness ==
    /\ Len(payments) > 0
    /\ \E i \in 1..Len(loans) :
          /\ loans[i].principalPaid > 0
          /\ loans[i].principalPaid + loans[i].interestPaid = loans[i].totalDue

\* C3: each borrower has at most one loan that is pending, or approved with a
\* nonzero outstanding balance, whatever decisions are issued, those on loans
\* already approved or rejected included.
ActiveLoan(loan) ==
    /\ loan.status \in {"pending", "approved"}
    /\ RemainingBalance(loan) # 0

C3_OneActiveLoanPerBorrower ==
    \A i, j \in 1..Len(loans) :
        (i # j /\ loans[i].borrowerId = loans[j].borrowerId)
            => ~(ActiveLoan(loans[i]) /\ ActiveLoan(loans[j]))

\* C4: a loan's status changes at most once, from pending to approved or to
\* rejected: a decided loan keeps its status in every later step.
C4_StatusDecidedOnce ==
    [][\A i \in 1..Len(loans) :
          (i <= Len(loans') /\ loans'[i].id = loans[i].id /\ loans[i].status # "pending")
              => loans'[i].status = loans[i].status]_vars

\* C5: a decision (approve or reject) on a loan that is not pending fails with
\* InvalidLoanState and leaves the snapshot unchanged.
C5_RedecideFails ==
    [][\A loanId \in LoanIds, approve \in BOOLEAN :
          (/\ IsLender
           /\ loans[FindLoan(loanId)].status # "pending"
           /\ ApproveLoan(loanId, approve))
              => /\ ApproveOutcome(loanId, approve) = "InvalidLoanState"
                 /\ UNCHANGED state]_vars

\* C6: the available capital that withdrawals and approvals are validated
\* against is the sum of the capital entries minus the outstanding principal
\* (amount - principalPaid, while positive) of the approved loans, so that a
\* payment's principal portion returns to it.
OutstandingPrincipal(loan) ==
    IF loan.status = "approved" /\ loan.amount - loan.principalPaid > 0
    THEN loan.amount - loan.principalPaid
    ELSE 0

C6_AvailableCountsOutstandingPrincipal ==
    AvailableCapital
        = TotalCapital - SumSeq([i \in 1..Len(loans) |-> OutstandingPrincipal(loans[i])])

\* C7: a withdrawal by the lender of more than the available capital fails
\* with InsufficientCapital and changes nothing; any other withdrawal appends
\* exactly one capital entry of value -amount and changes nothing else.
C7_Outcome ==
    \A amount \in WithdrawAmounts :
        IsLender =>
            WithdrawOutcome(amount)
                = IF amount > AvailableCapital THEN "InsufficientCapital" ELSE "ok"

C7_Step ==
    \A amount \in WithdrawAmounts :
        (IsLender /\ WithdrawCapital(amount)) =>
            IF amount > AvailableCapital
            THEN UNCHANGED state
            ELSE /\ Len(capital') = Len(capital) + 1
                 /\ SubSeq(capital', 1, Len(capital)) = capital
                 /\ capital'[Len(capital')].amount = 0 - amount
                 /\ UNCHANGED <<users, loans, payments, currentUser>>

C7_WithdrawValidated == []C7_Outcome /\ [][C7_Step]_vars

\* The lender has withdrawn, and a further withdrawal would exceed what is left.
C7_Witness ==
    /\ IsLender
    /\ \E i \in 1..Len(capital) : capital[i].amount < 0
    /\ \E amount \in WithdrawAmounts : amount > AvailableCapital

\* C8: approving a pending loan whose principal exceeds the available capital
\* fails with InsufficientCapital and changes nothing; otherwise the loan
\* becomes approved with approvedAt = now and dueDate = now + 7 days (weekly)
\* or now + 1 month (monthly), and the available capital falls by exactly the
\* principal.
C8_Outcome ==
    \A loanId \in LoanIds :
        (IsLender /\ loans[FindLoan(loanId)].status = "pending") =>
            ApproveOutcome(loanId, TRUE)
                = IF loans[FindLoan(loanId)].amount > AvailableCapital
                  THEN "InsufficientCapital" ELSE "ok"

C8_Step ==
    \A loanId \in LoanIds :
        LET i == FindLoan(loanId) IN
        (IsLender /\ loans[i].status = "pending" /\ ApproveLoan(loanId, TRUE)) =>
            IF loans[i].amount > AvailableCapital
            THEN UNCHANGED state
            ELSE /\ loans'[i].status = "approved"
                 /\ loans'[i].approvedAt = now
                 /\ loans'[i].dueDate = IF loans[i].paymentSchedule = "weekly"
                                        THEN now + 7 ELSE AddMonth(now)
                 /\ AvailableCapital' = AvailableCapital - loans[i].amount

C8_ApproveValidated == []C8_Outcome /\ [][C8_Step]_vars

\* 500 deposited and a monthly loan of 300 just approved leave 200.
C8_Witness ==
    /\ TotalCapital = 500 * Dollar
    /\ AvailableCapital = 200 * Dollar
    /\ now > 0
    /\ \E i \in 1..Len(loans) :
          /\ loans[i].status = "approved"
          /\ loans[i].amount = 300 * Dollar
          /\ loans[i].paymentSchedule = "monthly"
          /\ loans[i].approvedAt = now
          /\ loans[i].dueDate = AddMonth(now)

\* C9: a borrower's request for more than 1000 currency units fails with
\* LoanLimitExceeded and creates no loan, so no loan ever has a principal
\* above 1000.
C9_LoanLimit ==
    /\ IsBorrower =>
          \A amount \in LoanAmounts :
              amount > 1000 * Dollar => RequestOutcome(amount) = "LoanLimitExceeded"
    /\ \A i \in 1..Len(loans) : loans[i].amount <= 1000 * Dollar

\* A borrower free to request, whom only the cap keeps from a loan of 1200.
C9_Witness ==
    /\ IsBorrower
    /\ ~HasActiveLoan(currentUser.id)
    /\ Len(loans) = 1
    /\ \E amount \in LoanAmounts : amount > 1000 * Dollar

\* C10 as stated: every request by a borrower who has a pending loan, or an
\* approved loan with outstanding balance, fails with DuplicateActiveLoan.
HasOutstandingLoan(borrowerId) ==
    \E i \in 1..Len(loans) :
        loans[i].borrowerId = borrowerId /\ ActiveLoan(loans[i])

C10_AlwaysDuplicateActiveLoan ==
    \A amount \in LoanAmounts :
        (IsBorrower /\ HasOutstandingLoan(currentUser.id))
            => RequestOutcome(amount) = "DuplicateActiveLoan"

\* C10 amended: such a request fails with DuplicateActiveLoan when its principal
\* is within the cap and with LoanLimitExceeded when it is above; either way
\* the loan collection is unchanged.
C10_Outcome ==
    \A amount \in LoanAmounts :
        (IsBorrower /\ HasOutstandingLoan(currentUser.id))
            => RequestOutcome(amount)
                   = IF amount > 1000 * Dollar
                     THEN "LoanLimitExceeded" ELSE "DuplicateActiveLoan"

C10_Step ==
    \A amount \in LoanAmounts, schedule \in Schedules :
        (IsBorrower /\ HasOutstandingLoan(currentUser.id) /\ RequestLoan(amount, schedule))
            => UNCHANGED loans

C10_DuplicateActiveLoan == []C10_Outcome /\ [][C10_Step]_vars

\* The acting borrower's approved loan is partly repaid and still owes.
C10_Witness ==
    /\ IsBorrower
    /\ \E i \in 1..Len(loans) :
          /\ loans[i].borrowerId = currentUser.id
          /\ loans[i].status = "approved"
          /\ loans[i].principalPaid > 0
          /\ RemainingBalance(loans[i]) > 0

\* C11: a borrower whose approved loan is fully paid, and who has no other
\* pending or owing loan, is allowed a new request within the cap.
HasPaidOffLoan(borrowerId) ==
    \E i \in 1..Len(loans) :
        /\ loans[i].borrowerId = borrowerId
        /\ loans[i].status = "approved"
        /\ loans[i].principalPaid > 0
        /\ RemainingBalance(loans[i]) = 0

C11_RequestAfterPayoff ==
    \A amount \in LoanAmounts :
        (/\ IsBorrower
         /\ amount <= 1000 * Dollar
         /\ HasPaidOffLoan(currentUser.id)
         /\ ~HasOutstandingLoan(currentUser.id))
            => RequestOutcome(amount) = "ok"

\* C12: a request that creates a loan appends one that is pending, has nothing
\* paid, both overdue flags false, rate 2% (weekly) or 6% (monthly) and
\* totalDue = principal + principal * rate (318 for 300 monthly); a decision
\* leaves every loan's totalDue as it was.
C12_Created ==
    \A amount \in LoanAmounts, schedule \in Schedules :
        (loans' # loans /\ IsBorrower /\ RequestLoan(amount, schedule)) =>
            /\ Len(loans') = Len(loans) + 1
            /\ SubSeq(loans', 1, Len(loans)) = loans
            /\ LET l == loans'[Len(loans')]
                   rate == IF schedule = "weekly" THEN 2 ELSE 6
               IN  /\ l.status = "pending"
                   /\ l.amount = amount
                   /\ l.paymentSchedule = schedule
                   /\ l.principalPaid = 0 /\ l.interestPaid = 0
                   /\ ~l.isOverdue /\ ~l.overdueInterestApplied
                   /\ l.interestRate = rate
                   /\ 100 * (l.totalDue - amount) = amount * rate
                   /\ (amount = 300 * Dollar /\ schedule = "monthly")
                          => l.totalDue = 318 * Dollar

C12_Decided ==
    \A loanId \in LoanIds, approve \in BOOLEAN :
        (loans' # loans /\ ApproveLoan(loanId, approve)) =>
            /\ Len(loans') = Len(loans)
            /\ \A i \in 1..Len(loans) : loans'[i].totalDue = loans[i].totalDue

C12_LoanAsRequested == [][C12_Created /\ C12_Decided]_vars

\* A monthly loan of 300 has been requested and decided, and is due 318.
C12_Witness ==
    \E i \in 1..Len(loans) :
        /\ loans[i].status \in {"approved", "rejected"}
        /\ loans[i].amount = 300 * Dollar
        /\ loans[i].paymentSchedule = "monthly"
        /\ loans[i].totalDue = 318 * Dollar

\* C13: a sweep of an approved loan that is past its due date and has neither
\* overdue flag set sets both flags and raises totalDue by
\* (totalDue - principalPaid - interestPaid) * scheduleRate, taken on the values
\* before the sweep, to the nearest point of the money grid; a loan due 318
\* with 186 outstanding at 6% is then due 329.16.
C13_Step ==
    OverdueSweep =>
        \A i \in 1..Len(loans) :
            (/\ loans[i].status = "approved"
             /\ loans[i].dueDate # NoDate /\ loans[i].dueDate < now
             /\ ~loans[i].isOverdue /\ ~loans[i].overdueInterestApplied)
                => LET rate == IF loans[i].paymentSchedule = "weekly" THEN 2 ELSE 6
                       bump == loans'[i].totalDue - loans[i].totalDue
                   IN  /\ loans'[i].isOverdue
                       /\ loans'[i].overdueInterestApplied
                       /\ 100 * bump - RemainingBalance(loans[i]) * rate \in (0 - 50)..50
                       /\ loans'[i].principalPaid = loans[i].principalPaid
                       /\ loans'[i].interestPaid = loans[i].interestPaid

C13_ExampleLoan ==
    [id |-> 1, borrowerId |-> 1, borrowerName |-> <<"A", "l">>, amount |-> 300 * Dollar,
     interestRate |-> 6, paymentSchedule |-> "monthly", status |-> "approved",
     approvedAt |-> 0, dueDate |-> 31, totalDue |-> 318 * Dollar,
     principalPaid |-> 114 * Dollar, interestPaid |-> 18 * Dollar,
     isOverdue |-> FALSE, overdueInterestApplied |-> FALSE]

C13_Example ==
    now > 31 => SweptLoan(C13_ExampleLoan).totalDue = 329 * Dollar + 1600

C13_SweepBump == []C13_Example /\ [][C13_Step]_vars

\* A monthly loan of 300 with 150 paid, swept after its due date: 168
\* outstanding at 6% has added 10.08.
C13_Witness ==
    \E i \in 1..Len(loans) :
        /\ loans[i].isOverdue /\ loans[i].overdueInterestApplied
        /\ loans[i].principalPaid + loans[i].interestPaid = 150 * Dollar
        /\ loans[i].totalDue = 328 * Dollar + 800

\* C14: the overdue bump is applied at most once per overdue episode: a loan's
\* totalDue changes only in a sweep of a loan that has neither flag set, and
\* a set overdueInterestApplied is cleared only by a payment recorded on the loan.
C14_Step ==
    \A i \in 1..Len(loans) :
        (i <= Len(loans') /\ loans'[i].id = loans[i].id) =>
            /\ loans'[i].totalDue # loans[i].totalDue
                  => /\ OverdueSweep
                     /\ ~loans[i].isOverdue /\ ~loans[i].overdueInterestApplied
                     /\ loans'[i].isOverdue /\ loans'[i].overdueInterestApplied
            /\ (loans[i].overdueInterestApplied /\ ~loans'[i].overdueInterestApplied)
                  => /\ Len(payments') = Len(payments) + 1
                     /\ payments'[Len(payments')].loanId = loans[i].id

C14_BumpOncePerEpisode == [][C14_Step]_vars

\* A weekly loan of 300, bumped once by 6.12, still overdue more than three
\* weeks after its due date.
C14_Witness ==
    \E i \in 1..Len(loans) :
        /\ loans[i].isOverdue /\ loans[i].overdueInterestApplied
        /\ loans[i].dueDate = 7 /\ now = 32
        /\ loans[i].totalDue = 312 * Dollar + 1200

\* C15: a recorded payment that leaves the loan owing sets its dueDate one
\* schedule period after the payment time and clears both overdue flags; one
\* that pays the loan off leaves dueDate and both flags as they were.  A loan
\* with both flags clear that is past its due date and owes is bumped by a sweep.
C15_Step ==
    \A loanId \in LoanIds, amount \in PaymentAmounts, method \in Methods :
        LET i == FindLoan(loanId) IN
        (payments' # payments /\ RecordPayment(loanId, amount, method)) =>
            IF loans'[i].principalPaid + loans'[i].interestPaid < loans'[i].totalDue
            THEN /\ loans'[i].dueDate = IF loans[i].paymentSchedule = "weekly"
                                        THEN now + 7
                                        ELSE IF now < 31 THEN now + 31 ELSE now + 28
                 /\ ~loans'[i].isOverdue
                 /\ ~loans'[i].overdueInterestApplied
            ELSE /\ loans'[i].dueDate = loans[i].dueDate
                 /\ loans'[i].isOverdue = loans[i].isOverdue
                 /\ loans'[i].overdueInterestApplied = loans[i].overdueInterestApplied

C15_Rearmed ==
    \A i \in 1..Len(loans) :
        (/\ loans[i].status = "approved"
         /\ ~loans[i].isOverdue /\ ~loans[i].overdueInterestApplied
         /\ loans[i].dueDate < now
         /\ RemainingBalance(loans[i]) > 0)
            => /\ SweptLoan(loans[i]).overdueInterestApplied
               /\ SweptLoan(loans[i]).totalDue > loans[i].totalDue

C15_PaymentResetsCycle == []C15_Rearmed /\ [][C15_Step]_vars

\* A weekly loan of 300 bumped by 6.12, then paid 150 and so re-armed, then
\* bumped again by 2% of the 162.12 left.
C15_Witness ==
    /\ Len(payments) = 1
    /\ \E i \in 1..Len(loans) :
          /\ loans[i].overdueInterestApplied
          /\ loans[i].principalPaid + loans[i].interestPaid = 150 * Dollar
          /\ loans[i].totalDue = 315 * Dollar + 3624

\* C16: every recorded payment's principal and interest portions add up to
\* its amount, and recording it raises the loan's principalPaid and
\* interestPaid by exactly those portions.
C16_PortionsSum ==
    \A k \in 1..Len(payments) :
        payments[k].principalAmount + payments[k].interestAmount = payments[k].amount

C16_Step ==
    \A loanId \in LoanIds, amount \in PaymentAmounts, method \in Methods :
        LET i == FindLoan(loanId) IN
        (payments' # payments /\ RecordPayment(loanId, amount, method)) =>
            LET p == payments'[Len(payments')]
            IN  /\ SubSeq(payments', 1, Len(payments)) = payments
                /\ p.loanId = loanId /\ p.amount = amount
                /\ loans'[i].principalPaid = loans[i].principalPaid + p.principalAmount
                /\ loans'[i].interestPaid = loans[i].interestPaid + p.interestAmount

C16_AllocationLaw == []C16_PortionsSum /\ [][C16_Step]_vars

\* A payment split into a nonzero interest and a nonzero principal portion.
C16_Witness ==
    \E k \in 1..Len(payments) :
        payments[k].interestAmount > 0 /\ payments[k].principalAmount > 0

\* C17: an accepted payment's interest portion is min(amount, outstanding
\* interest) and its principal portion the rest, the outstanding interest
\* being the interest in totalDue (the schedule interest and the overdue
\* interest added to it) less the interest paid.  Stated for loans where that
\* is unambiguous: never bumped, or bumped with nothing paid yet.
C17_NeverBumped(loan) ==
    100 * (loan.totalDue - loan.amount)
        = loan.amount * (IF loan.paymentSchedule = "weekly" THEN 2 ELSE 6)

C17_FirstBump(loan) ==
    loan.overdueInterestApplied /\ loan.principalPaid = 0 /\ loan.interestPaid = 0

C17_InterestFirst ==
    [][\A loanId \in LoanIds, amount \in PaymentAmounts, method \in Methods :
          LET loan == loans[FindLoan(loanId)] IN
          (/\ RecordPayment(loanId, amount, method)
           /\ payments' # payments
           /\ (C17_NeverBumped(loan) \/ C17_FirstBump(loan)))
              => LET p == payments'[Len(payments')]
                     owed == loan.totalDue - loan.amount - loan.interestPaid
                 IN  /\ p.interestAmount = IF amount <= owed THEN amount ELSE owed
                     /\ p.principalAmount = amount - p.interestAmount]_vars

\* C18: a payment on a loan that is not approved fails with InvalidLoanState,
\* one above the remaining balance of an approved loan fails with
\* ExceedsBalance; either way the snapshot is unchanged.
C18_PaymentRejected ==
    \A loanId \in LoanIds, amount \in PaymentAmounts :
        LET loan == loans[FindLoan(loanId)] IN
        IsBorrower =>
            /\ loan.status # "approved"
                  => PaymentOutcome(loanId, amount) = "InvalidLoanState"
            /\ (loan.status = "approved" /\ amount > RemainingBalance(loan))
                  => PaymentOutcome(loanId, amount) = "ExceedsBalance"

\* The part of C18 about the snapshot: such a payment changes nothing.
C18_Unchanged ==
    [][\A loanId \in LoanIds, amount \in PaymentAmounts, method \in Methods :
          LET loan == loans[FindLoan(loanId)] IN
          (/\ RecordPayment(loanId, amount, method)
           /\ (loan.status # "approved" \/ amount > RemainingBalance(loan)))
              => UNCHANGED state]_vars

\* C19: a deposit, withdrawal, decision or reset issued while the acting user
\* is not the lender, and a loan request or payment issued while the acting
\* user is not a borrower (or there is none), leaves the snapshot unchanged:
\* no step that changes the snapshot is such a command.
C19_Step ==
    /\ (state' # state /\ ~IsLender) =>
          /\ \A amount \in DepositAmounts : ~DepositCapital(amount)
          /\ \A amount \in WithdrawAmounts : ~WithdrawCapital(amount)
          /\ \A loanId \in LoanIds \cup {0}, approve \in BOOLEAN :
                ~ApproveLoan(loanId, approve)
          /\ ~SystemReset
    /\ (state' # state /\ ~IsBorrower) =>
          /\ \A amount \in LoanAmounts, schedule \in Schedules :
                ~RequestLoan(amount, schedule)
          /\ \A loanId \in LoanIds \cup {0}, amount \in PaymentAmounts, method \in Methods :
                ~RecordPayment(loanId, amount, method)

C19_Outcome ==
    /\ ~IsLender =>
          /\ DepositOutcome = "ignored"
          /\ ResetOutcome = "ignored"
          /\ \A amount \in WithdrawAmounts : WithdrawOutcome(amount) = "ignored"
          /\ \A loanId \in LoanIds, approve \in BOOLEAN :
                ApproveOutcome(loanId, approve) = "ignored"
    /\ ~IsBorrower =>
          /\ \A amount \in LoanAmounts : RequestOutcome(amount) = "ignored"
          /\ \A loanId \in LoanIds, amount \in PaymentAmounts :
                PaymentOutcome(loanId, amount) = "ignored"

C19_RoleGate == []C19_Outcome /\ [][C19_Step]_vars

\* A borrower acts while there is capital to withdraw and a pending loan to
\* decide.
C19_Witness ==
    /\ IsBorrower
    /\ AvailableCapital >= 200 * Dollar
    /\ \E i \in 1..Len(loans) : loans[i].status = "pending"

\* C20: a payment command takes effect only when the acting user is the
\* borrower of the loan, so every recorded payment carries the borrowerId of
\* its loan.
C20_PaymentsByOwner ==
    \A k \in 1..Len(payments) :
        \A i \in 1..Len(loans) :
            loans[i].id = payments[k].loanId
                => payments[k].borrowerId = loans[i].borrowerId

C20_Step ==
    \A loanId \in LoanIds, amount \in PaymentAmounts, method \in Methods :
        (/\ IsBorrower
         /\ loans[FindLoan(loanId)].borrowerId # currentUser.id
         /\ RecordPayment(loanId, amount, method))
            => UNCHANGED <<loans, payments>>

C20_OwnerPaysOnly == []C20_PaymentsByOwner /\ [][C20_Step]_vars

\* C21: the registry never holds more than one lender or more than nineteen
\* borrowers; a registration for a role at capacity leaves the registry and
\* the acting user unchanged.
LenderCount   == Cardinality({i \in 1..Len(users) : users[i].role = "lender"})
BorrowerCount == Cardinality({i \in 1..Len(users) : users[i].role = "borrower"})

C21_Caps == LenderCount <= 1 /\ BorrowerCount <= 19

C21_Step ==
    \A name \in Names, role \in Roles :
        (/\ RegisterUser(name, role)
         /\ IF role = "lender" THEN LenderCount >= 1 ELSE BorrowerCount >= 19)
            => UNCHANGED <<users, currentUser>>

C21_RoleCaps == []C21_Caps /\ [][C21_Step]_vars

\* The registry is full: one lender and nineteen borrowers.
C21_Witness == LenderCount = 1 /\ BorrowerCount = 19

\* C22: no two registered users have names that are equal ignoring case; a
\* submission whose name, as stored after trimming, equals an existing name
\* ignoring case is rejected and adds no user.
SameName(a, b) == ToLowerCase(a) = ToLowerCase(b)

C22_UniqueNames ==
    \A i, j \in 1..Len(users) :
        i # j => ~SameName(users[i].name, users[j].name)

C22_Step ==
    \A name \in RawNames, role \in Roles :
        (/\ HandleSubmit(name, role)
         /\ \E i \in 1..Len(users) : SameName(users[i].name, Trim(name)))
            => UNCHANGED users

C22_DuplicateName == []C22_UniqueNames /\ [][C22_Step]_vars

\* C23: a reset issued by the lender empties capital, loans and payments and
\* leaves the registry and the acting user exactly as they were.
C23_ResetKeepsRegistry ==
    [][(IsLender /\ SystemReset)
           => /\ capital' = <<>> /\ loans' = <<>> /\ payments' = <<>>
              /\ users' = users
              /\ currentUser' = currentUser]_vars

\* C24: two commands issued back to back have the outcome of applying them one
\* after the other, each validated against the state the one before it left:
\* two withdrawals take out what they would take out in turn, two requests of
\* one borrower without an active loan add one loan, and available capital
\* stays non-negative with at most one lender and MAX_BORROWERS borrowers.
C24_Withdrawn(amount1, amount2) ==
    LET first == IF amount1 <= AvailableCapital THEN amount1 ELSE 0
        second == IF amount2 <= AvailableCapital - first THEN amount2 ELSE 0
    IN  first + second

C24_Invariants ==
    /\ AvailableCapital >= 0
    /\ LenderCount <= 1
    /\ BorrowerCount <= MAX_BORROWERS

C24_Step ==
    /\ \A amount1 \in WithdrawAmounts, amount2 \in WithdrawAmounts :
          (capital' # capital /\ IsLender /\ WithdrawTwice(amount1, amount2))
          => TotalCapital' = TotalCapital - C24_Withdrawn(amount1, amount2)
    /\ \A amount1 \in LoanAmounts, schedule1 \in Schedules,
          amount2 \in LoanAmounts, schedule2 \in Schedules :
          (loans' # loans /\ ~HasActiveLoan(currentUser.id)
             /\ RequestTwice(amount1, schedule1, amount2, schedule2))
          => Len(loans') = Len(loans) + 1

C24_SerialOutcome == []C24_Invariants /\ [][C24_Step]_vars

\* C25: a sweep and a payment on the same loan issued together come out as one
\* of the two serial orders.  Sweep first: the overdue interest the sweep owes
\* the loan is in its totalDue, the payment is validated against the swept
\* balance and is added in full to what was paid.  Payment first: totalDue is
\* as it was, the payment is added in full, and a loan still owing is not
\* overdue and has its due date ahead.  The other loans are as a sweep alone
\* leaves them, and the payment recorded is the one made.
C25_Bump(loan) ==
    IF loan.status = "approved" /\ loan.dueDate # NoDate /\ now > loan.dueDate
       /\ ~loan.isOverdue /\ ~loan.overdueInterestApplied
    THEN Interest(RemainingBalance(loan), RateOf(loan.paymentSchedule))
    ELSE 0

C25_Paid(loan) == loan.principalPaid + loan.interestPaid

C25_Recorded(loanId, amount) ==
    /\ Len(payments') = Len(payments) + 1
    /\ payments'[Len(payments')].loanId = loanId
    /\ payments'[Len(payments')].amount = amount
    /\ \A k \in 1..Len(loans) : loans[k].id # loanId => loans'[k] = SweptLoan(loans[k])

C25_Step ==
    \A loanId \in LoanIds, amount \in PaymentAmounts, method \in Methods :
       LET old == loans[FindLoan(loanId)]
           new == loans'[FindLoan(loanId)]
       IN  /\ (payments' # payments /\ SweepThenPay(loanId, amount, method))
              => /\ C25_Recorded(loanId, amount)
                 /\ new.totalDue = old.totalDue + C25_Bump(old)
                 /\ amount <= RemainingBalance(old) + C25_Bump(old)
                 /\ C25_Paid(new) = C25_Paid(old) + amount
           /\ (payments' # payments /\ PayThenSweep(loanId, amount, method))
              => /\ C25_Recorded(loanId, amount)
                 /\ new.totalDue = old.totalDue
                 /\ amount <= RemainingBalance(old)
                 /\ C25_Paid(new) = C25_Paid(old) + amount
                 /\ C25_Paid(new) < new.totalDue
                       => ~new.isOverdue /\ new.dueDate > now

C25_SweepAndPaymentSerial == [][C25_Step]_vars

\* A loan that carries overdue interest in its totalDue and a payment, and
\* whose cycle the payment has started again.
C25_Witness ==
    \E k \in 1..Len(loans) :
       /\ loans[k].status = "approved"
       /\ loans[k].totalDue > loans[k].amount + Interest(loans[k].amount, loans[k].interestRate)
       /\ C25_Paid(loans[k]) > 0
       /\ ~loans[k].isOverdue
       /\ loans[k].dueDate > now
       /\ \E p \in 1..Len(payments) : payments[p].loanId = loans[k].id

\* C26: while time passes and the interval's callback runs when its period is
\* over, an approved loan that still owes, is past its due date, has no
\* payment recorded and is not marked overdue does not stay so for ever: the
\* sweep marks it, whatever commands change the loans in the meantime.
C26_Unmarked(k) ==
    /\ k <= Len(loans)
    /\ loans[k].status = "approved"
    /\ RemainingBalance(loans[k]) > 0
    /\ loans[k].dueDate # NoDate
    /\ now > loans[k].dueDate
    /\ ~loans[k].isOverdue
    /\ \A p \in 1..Len(payments) : payments[p].loanId # loans[k].id

C26_SweepNotStarved ==
    \A k \in 1..(MaxRecords \div 2) : C26_Unmarked(k) ~> ~C26_Unmarked(k)

\* C27: capital entries and payments are append-only: every step other than
\* the lender's reset keeps the entries and payments it finds, unchanged and
\* in order, at the front of the new collections; a deposit appends exactly
\* one entry, of the amount deposited, which is positive.
IsPrefix(a, b) == Len(a) <= Len(b) /\ SubSeq(b, 1, Len(a)) = a

C27_Step ==
    /\ (IsLender /\ SystemReset)
          \/ (IsPrefix(capital, capital') /\ IsPrefix(payments, payments'))
    /\ \A amount \in DepositAmounts :
          (capital' # capital /\ DepositCapital(amount)) =>
              /\ Len(capital') = Len(capital) + 1
              /\ capital'[Len(capital')].amount = amount
              /\ amount > 0
              /\ payments' = payments

C27_AppendOnly == [][C27_Step]_vars

\* A deposit, a withdrawal and a payment have been recorded.
C27_Witness ==
    /\ Len(capital) >= 2
    /\ capital[1].amount > 0
    /\ Len(payments) >= 1

\* C28: a payment is appended only by a RecordPayment of a positive amount on a
\* loan that is approved and owes more than zero at that moment.
C28_Step ==
    payments' # payments =>
        \/ payments' = <<>>
        \/ /\ Len(payments') = Len(payments) + 1
           /\ LET p == payments'[Len(payments')]
                  i == FindLoan(p.loanId)
              IN  /\ i # 0
                  /\ p.amount > 0
                  /\ loans[i].status = "approved"
                  /\ RemainingBalance(loans[i]) > 0
                  /\ \E method \in Methods : RecordPayment(p.loanId, p.amount, method)

C28_Refused ==
    \A loanId \in LoanIds, amount \in PaymentAmounts :
        LET loan == loans[FindLoan(loanId)] IN
        (loan.status # "approved" \/ RemainingBalance(loan) <= 0)
            => PaymentOutcome(loanId, amount) # "ok"

C28_PaymentOnOwingLoan == []C28_Refused /\ [][C28_Step]_vars

\* The acting borrower's loan is fully paid, and a payment is on record.
C28_Witness ==
    /\ IsBorrower
    /\ HasPaidOffLoan(currentUser.id)
    /\ Len(payments) >= 1

\* C29: a sweep changes no field of a fully paid loan.
C29_PaidLoanInert ==
    [][OverdueSweep =>
          \A i \in 1..Len(loans) :
              (/\ loans[i].status = "approved"
               /\ loans[i].principalPaid + loans[i].interestPaid = loans[i].totalDue)
                  => loans'[i] = loans[i]]_vars

\* C30: a sweep changes nothing but isOverdue, overdueInterestApplied and
\* totalDue of approved loans whose dueDate is before now; every other loan,
\* the users, capital entries, payments and acting user stay as they are.
C30_Step ==
    OverdueSweep =>
        /\ UNCHANGED <<users, capital, payments, currentUser>>
        /\ Len(loans') = Len(loans)
        /\ \A i \in 1..Len(loans) :
              /\ loans'[i] = [loans[i] EXCEPT
                                !.isOverdue = loans'[i].isOverdue,
                                !.overdueInterestApplied = loans'[i].overdueInterestApplied,
                                !.totalDue = loans'[i].totalDue]
              /\ ~(loans[i].status = "approved" /\ loans[i].dueDate # NoDate
                      /\ loans[i].dueDate < now)
                    => loans'[i] = loans[i]

C30_SweepFrame == [][C30_Step]_vars

\* A loan the sweep has marked overdue next to a rejected loan, which the
\* sweep left as it was.
C30_Witness ==
    /\ \E i \in 1..Len(loans) : loans[i].isOverdue
    /\ \E j \in 1..Len(loans) : loans[j].status = "rejected"

\* C31: over a loan's lifetime totalDue is raised by overdue interest at most
\* once: a step raises a loan's totalDue only from what was set at the
\* request, the principal plus one schedule's interest.
C31_Step ==
    \A k \in 1..Len(loans) :
       (k <= Len(loans') /\ loans'[k].id = loans[k].id
          /\ loans'[k].totalDue > loans[k].totalDue)
       => loans[k].totalDue
            = loans[k].amount + Interest(loans[k].amount, loans[k].interestRate)

C31_OneBumpPerLifetime == [][C31_Step]_vars

\* C32: every monetary value of the snapshot is a whole number of cents:
\* totalDue, principalPaid and interestPaid of every loan and the amount and
\* the two portions of every payment.
C32_Cent == Dollar \div 100

C32_IsCents(x) == x % C32_Cent = 0

C32_WholeCents ==
    /\ \A k \in 1..Len(loans) :
          /\ C32_IsCents(loans[k].totalDue)
          /\ C32_IsCents(loans[k].principalPaid)
          /\ C32_IsCents(loans[k].interestPaid)
    /\ \A p \in 1..Len(payments) :
          /\ C32_IsCents(payments[p].amount)
          /\ C32_IsCents(payments[p].principalAmount)
          /\ C32_IsCents(payments[p].interestAmount)

\* C33: both portions of every recorded payment are non-negative, and no
\* payment lowers a loan's interestPaid or principalPaid.
C33_Portions ==
    \A p \in 1..Len(payments) :
       payments[p].interestAmount >= 0 /\ payments[p].principalAmount >= 0

C33_Step ==
    \A loanId \in LoanIds, amount \in PaymentAmounts, method \in Methods :
       (payments' # payments /\ RecordPayment(loanId, amount, method))
       => \A k \in 1..Len(loans) :
             /\ loans'[k].interestPaid >= loans[k].interestPaid
             /\ loans'[k].principalPaid >= loans[k].principalPaid

C33_PortionsNonNegative == []C33_Portions /\ [][C33_Step]_vars

\* C34: a loan's principalPaid never exceeds its principal, and a loan that is
\* paid in full has paid exactly its principal as principal.
C34_PrincipalPaidIsPrincipal ==
    \A k \in 1..Len(loans) :
       /\ loans[k].principalPaid <= loans[k].amount
       /\ (loans[k].status = "approved" /\ RemainingBalance(loans[k]) = 0)
             => loans[k].principalPaid = loans[k].amount

\* C35: for every loan, the amounts of the payments recorded for it add up
\* to its principalPaid + interestPaid, and their principal and interest
\* portions add up to its principalPaid and its interestPaid.
C35_PaymentsOf(loanId) == SelectSeq(payments, LAMBDA p : p.loanId = loanId)

C35_PaymentsMatchLoans ==
    \A k \in 1..Len(loans) :
       LET paid == C35_PaymentsOf(loans[k].id)
       IN  /\ SumSeq([p \in 1..Len(paid) |-> paid[p].amount])
                = loans[k].principalPaid + loans[k].interestPaid
           /\ SumSeq([p \in 1..Len(paid) |-> paid[p].principalAmount])
                = loans[k].principalPaid
           /\ SumSeq([p \in 1..Len(paid) |-> paid[p].interestAmount])
                = loans[k].interestPaid

\* A loan with two payments, part interest and part principal.
C35_Witness ==
    \E k \in 1..Len(loans) :
       /\ Len(C35_PaymentsOf(loans[k].id)) = 2
       /\ loans[k].interestPaid > 0
       /\ loans[k].principalPaid > 0

\* C36: identifiers are unique within each collection, also for entities made
\* at the same clock reading, and a decision addressed by id changes one loan
\* at most.
C36_Distinct(coll) ==
    \A i, j \in 1..Len(coll) : coll[i].id = coll[j].id => i = j

C36_Ids ==
    /\ C36_Distinct(users)
    /\ C36_Distinct(capital)
    /\ C36_Distinct(loans)
    /\ C36_Distinct(payments)

C36_Step ==
    \A loanId \in LoanIds, approve \in BOOLEAN :
       (loans' # loans /\ ApproveLoan(loanId, approve))
       => Cardinality({k \in 1..Len(loans) : loans'[k] # loans[k]}) <= 1

C36_UniqueIds == []C36_Ids /\ [][C36_Step]_vars

\* C37: a loan flagged overdue is approved and its due date is earlier than
\* the current time.
C37_OverdueIsPastDue ==
    \A k \in 1..Len(loans) :
       loans[k].isOverdue
       => /\ loans[k].status = "approved"
          /\ loans[k].dueDate # NoDate
          /\ loans[k].dueDate < now

\* C38: once the subscription is applied, each collection the hook keeps
\* holds the rows of the remote table it mirrors, after every insert, update
\* and delete.
C38_CacheMirrorsRemote ==
    subscription = "applied"
    => /\ MapValues(hook.users) = RowsOf("user")
       /\ MapValues(hook.loans) = RowsOf("loan")
       /\ MapValues(hook.payments) = RowsOf("payment")
       /\ IF RowsOf("capital") = {} THEN hook.capital = NoCapital
          ELSE hook.capital \in RowsOf("capital")

\* C39: a loan's isOverdue and overdueInterestApplied have the same value in
\* every state, and only the sweep and a payment change them.
C39_FlagsEqual ==
    \A k \in 1..Len(loans) : loans[k].isOverdue = loans[k].overdueInterestApplied

C39_Step ==
    \A k \in 1..Len(loans) :
       (k <= Len(loans') /\ loans'[k].id = loans[k].id
          /\ (\/ loans'[k].isOverdue # loans[k].isOverdue
              \/ loans'[k].overdueInterestApplied # loans[k].overdueInterestApplied))
       => \/ OverdueSweep
          \/ \E amount \in PaymentAmounts, method \in Methods :
                RecordPayment(loans[k].id, amount, method)

C39_FlagsTogether == []C39_FlagsEqual /\ [][C39_Step]_vars

\* A loan whose flags the sweep had set with the bump that is in its totalDue
\* and a payment has cleared.
C39_Witness ==
    \E k \in 1..Len(loans) :
       /\ loans[k].totalDue
            > loans[k].amount + Interest(loans[k].amount, loans[k].interestRate)
       /\ ~loans[k].isOverdue
       /\ ~loans[k].overdueInterestApplied
       /\ loans[k].principalPaid + loans[k].interestPaid > 0

====
